---- MODULE Spec2Model ----
(***************************************************************************)
(* A model of the trading bot: the trade calculator (trade_calculator.py), *)
(* the orchestrator TradeManager (trade_manager.py), the broker gateway    *)
(* IGClient as far as the orchestrator calls it (ig_api.py) and the        *)
(* webhook layer (webhook_handler.py, app.py).                             *)
(*                                                                         *)
(* Numbers.  Prices, ATR values and distances are Python floats in the     *)
(* source.  Here they are fixed-point integers counting units of 1/Scale   *)
(* (five decimals): 189.8 is 18980000.  Products and quotients are taken to *)
(* that resolution (to nearest); round(x, n) is round-half-even on the     *)
(* decimal value.  Percentages of the ticker table stay whole percents, as in the  *)
(* CSV.                                                                    *)
(***************************************************************************)
EXTENDS Integers, Sequences, FiniteSets, TLC

\* ---------------------------------------------------------------- numbers

Scale == 100 * 1000

Abs(x) == IF x < 0 THEN -x ELSE x

Max2(a, b) == IF a >= b THEN a ELSE b

RECURSIVE Pow10(_)
Pow10(n) == IF n <= 0 THEN 1 ELSE 10 * Pow10(n - 1)

\* a + b as [q, r] with a + b = q * m + r, for 0 <= a, b < m, without forming a + b
AddMod(a, b, m) ==
    IF a >= m - b THEN [q |-> 1, r |-> a - (m - b)] ELSE [q |-> 0, r |-> a + b]

\* [q, r] with x * p = q * m + r and 0 <= r < m, for x, p >= 0 and m > 0,
\* by doubling: no intermediate value exceeds the operands and the quotient
RECURSIVE MulDivMod(_, _, _)
MulDivMod(x, p, m) ==
    IF p = 0 THEN [q |-> 0, r |-> 0]
    ELSE LET h == MulDivMod(x, p \div 2, m)
             dbl == AddMod(h.r, h.r, m)
             odd == AddMod(dbl.r, x % m, m)
         IN  IF p % 2 = 0 THEN [q |-> 2 * h.q + dbl.q, r |-> dbl.r]
             ELSE [q |-> 2 * h.q + dbl.q + x \div m + odd.q, r |-> odd.r]

\* quotient q with remainder r of a division by m, rounded half to even
HalfEven(q, r, m) ==
    IF r > m - r THEN q + 1
    ELSE IF r < m - r THEN q
    ELSE IF q % 2 = 0 THEN q ELSE q + 1

\* round-half-even of x * p / q
RoundMulDiv(x, p, q) ==
    LET d == MulDivMod(x, p, q) IN HalfEven(d.q, d.r, q)

\* round-half-even of a / b, for a >= 0 and b > 0
RoundDiv(a, b) == HalfEven(a \div b, a % b, b)

\* x * p / 100, p a whole percent (x = 100 * hi + lo, so that no product overflows)
MulPct(x, p) ==
    LET lo == (x % 100) * p
    IN  HalfEven((x \div 100) * p + lo \div 100, lo % 100, 100)

\* x / (p / 100)
DivPct(x, p) ==
    LET lo == (x % p) * 100
    IN  HalfEven((x \div p) * 100 + lo \div p, lo % p, p)

\* round(x, 4), round(x, 2) and round(x, 1) of a fixed-point value
Round4(x) == (Scale \div 10000) * RoundDiv(x, Scale \div 10000)

Round2(x) == (Scale \div 100) * RoundDiv(x, Scale \div 100)

Round1(x) == (Scale \div 10) * RoundDiv(x, Scale \div 10)

\* [q, r] with a * 10^k = q * b + r, by long division (a, k >= 0, b > 0)
RECURSIVE LongDiv(_, _, _)
LongDiv(a, k, b) ==
    IF k = 0 THEN [q |-> a \div b, r |-> a % b]
    ELSE LET d == LongDiv(a, k - 1, b)
         IN  [q |-> d.q * 10 + (d.r * 10) \div b, r |-> (d.r * 10) % b]

\* round-half-even of a * 10^k / b
RoundLongDiv(a, k, b) ==
    LET d == LongDiv(a, k, b) IN HalfEven(d.q, d.r, b)

\* len(str(int(x))) for x >= 0: the digits of the integer part, "0" counting one
RECURSIVE NatDigits(_)
NatDigits(n) == IF n < 10 THEN 1 ELSE 1 + NatDigits(n \div 10)

IntDigits(x) == NatDigits(x \div Scale)

\* x * 10^d, a division when d < 0
ScalePow10(x, d) == IF d >= 0 THEN x * Pow10(d) ELSE RoundDiv(x, Pow10(-d))

\* An optional number (Python's None or a float)
None == [has |-> FALSE, v |-> 0]

Some(x) == [has |-> TRUE, v |-> x]

\* ----------------------------------------------------------- ticker table

(***************************************************************************)
(* The ticker table (the CSV read by load_ticker_data): one row per        *)
(* symbol.  The CSV itself is not part of the repository; the rows are     *)
(* LSE_DLY:SRP as test_calc.py expects it, BATS:GNE of normalize_price's   *)
(* comment, EURUSD of the test suite's fixture and a row whose IG EPIC is  *)
(* the placeholder "?".  The upload of a table checks its columns and not  *)
(* its values: the row LSE_DLY:ZER has 0 as its stop period.  Percent      *)
(* columns are whole percents; the maximum position size is in pounds;     *)
(* DividendDay is the calendar day of the next dividend date (0: none,     *)
(* 'na').                                                                  *)
(***************************************************************************)
TickerRows ==
    { [Symbol |-> "LSE_DLY:SRP", Epic |-> "KA.D.SRP.DAILY.IP",
       SlPeriod |-> 4, SlMultiple |-> 189, TpPeriod |-> 7, TpMultiple |-> 180,
       MaxGbp |-> 10000, OpeningMultiple |-> 101, DividendDay |-> 0],
      [Symbol |-> "BATS:GNE", Epic |-> "UC.D.GNE.DAILY.IP",
       SlPeriod |-> 1, SlMultiple |-> 150, TpPeriod |-> 2, TpMultiple |-> 200,
       MaxGbp |-> 5000, OpeningMultiple |-> 98, DividendDay |-> 1],
      [Symbol |-> "EURUSD", Epic |-> "CS.D.EURUSD.CFD.IP",
       SlPeriod |-> 3, SlMultiple |-> 100, TpPeriod |-> 5, TpMultiple |-> 100,
       MaxGbp |-> 2, OpeningMultiple |-> 100, DividendDay |-> 0],
      [Symbol |-> "LSE_DLY:NEW", Epic |-> "?",
       SlPeriod |-> 2, SlMultiple |-> 150, TpPeriod |-> 3, TpMultiple |-> 150,
       MaxGbp |-> 10000, OpeningMultiple |-> 100, DividendDay |-> 0],
      [Symbol |-> "LSE_DLY:ZER", Epic |-> "KA.D.ZER.DAILY.IP",
       SlPeriod |-> 0, SlMultiple |-> 150, TpPeriod |-> 3, TpMultiple |-> 150,
       MaxGbp |-> 10000, OpeningMultiple |-> 100, DividendDay |-> 0] }

\* a faulty lookup: every row matches
RowsOfAny(table, ticker) == table

\* ticker_row = ticker_data[ticker_data['Symbol'] == ticker]
RowsOf(table, ticker) == { r \in table : r.Symbol = ticker }

FirstRow(table, ticker) == CHOOSE r \in RowsOf(table, ticker) : TRUE

\* ------------------------------------------------------- trade calculator

\* get_significant_digits: the digits before the point, leading zeros stripped
SigDigits(x) == IF x \div Scale = 0 THEN 0 ELSE NatDigits(x \div Scale)

\* a faulty normalisation: every quote from the price up to 150 times the
\* price counts as a 100x format difference
NormalizePriceWideRatio(tv_price, ig_price) ==
    IF ig_price.has /\ ig_price.v > 0 /\ tv_price > 0
         /\ ig_price.v >= tv_price /\ (ig_price.v + 149) \div 150 <= tv_price
    THEN tv_price * 100
    ELSE tv_price

\* normalize_price(tv_price, ig_price), ig_price optional
NormalizePrice(tv_price, ig_price) ==
    IF ig_price.has /\ ig_price.v > 0 /\ tv_price > 0
    THEN LET ig == ig_price.v
             digit_diff == IntDigits(ig) - IntDigits(tv_price)
             sig_diff == SigDigits(ig) - SigDigits(tv_price)
         IN  \* 50 <= ig / tv <= 150
             IF ig \div 50 >= tv_price /\ (ig + 149) \div 150 <= tv_price
             THEN tv_price * 100
             ELSE IF digit_diff >= 2 THEN tv_price * Pow10(digit_diff)
             ELSE IF digit_diff <= -2 THEN RoundDiv(tv_price, Pow10(-digit_diff))
             ELSE IF sig_diff > 0 THEN tv_price * Pow10(sig_diff)
             ELSE tv_price
    ELSE tv_price

\* a faulty direction mapping: only UP and DOWN are mapped, anything else is passed on
TradeDirectionPassThrough(direction) ==
    IF direction = "UP" THEN "SELL" ELSE IF direction = "DOWN" THEN "BUY" ELSE direction

\* trade_direction = "SELL" if direction == "UP" else "BUY"
TradeDirection(direction) == IF direction = "UP" THEN "SELL" ELSE "BUY"

\* price_level: divided by the opening price multiple for DOWN, multiplied otherwise
PriceLevel(direction, original_price, opening_multiple) ==
    IF direction = "DOWN" THEN DivPct(original_price, opening_multiple)
    ELSE MulPct(original_price, opening_multiple)

\* a faulty index: the period itself used as the 0-based index
PyIndexPeriod(seq, i) == IF i + 2 <= Len(seq) THEN seq[i + 2] ELSE seq[1]

\* atr_values[i] with Python's indexing: i < 0 counts from the end.
\* The index is in range wherever the calculator uses it.
PyIndex(seq, i) == IF i >= 0 THEN seq[i + 1] ELSE seq[Len(seq) + i + 1]

PyIndexOk(seq, i) == -Len(seq) <= i /\ i < Len(seq)

\* the ATR of one leg: the series' entry for the period, or the default
\* percentage of the price when the series is too short or the entry is <= 0
SelectAtr(atr_values, period, max_period, original_price, default_pct) ==
    LET picked == IF Len(atr_values) < max_period
                  THEN MulPct(original_price, default_pct)
                  ELSE PyIndex(atr_values, period - 1)
    IN  IF picked <= 0 THEN MulPct(original_price, default_pct) ELSE picked

MAX_STOP_PERCENT == 15

MAX_LIMIT_PERCENT == 20

\* a faulty clamp: the distance is never reduced
ClampNever(distance, price_level, max_percent) == distance

\* if distance > price_level * MAX_..._PERCENT: distance = that maximum
ClampMax(distance, price_level, max_percent) ==
    IF distance > MulPct(price_level, max_percent)
    THEN MulPct(price_level, max_percent)
    ELSE distance

\* the exponent d of price_format_multiplier = 10 ** d (0: the multiplier is 1.0)
FormatExponent(ig_price, price_level) ==
    IF ig_price > 0 /\ price_level > 0
    THEN LET digit_diff == IntDigits(ig_price) - IntDigits(price_level)
         IN  IF Abs(digit_diff) >= 2 THEN digit_diff ELSE 0
    ELSE 0

\* MIN_DISTANCE = 0.001 * price_level
MinDistance(price_level) == RoundDiv(price_level, 1000)

FloorMin(distance, price_level) ==
    IF distance < MinDistance(price_level) THEN MinDistance(price_level) ELSE distance

\* position_size: max_position_size_gbp / entry_price rounded to 2 decimals,
\* divided by 100 for a price above 800 (entry_price > 0)
PositionSize(max_gbp, entry_price) ==
    LET position_size == (Scale \div 100) * RoundLongDiv(max_gbp, 7, entry_price)
    IN  IF entry_price < 200 * Scale /\ position_size > 10 * Scale THEN position_size
        ELSE IF entry_price > 800 * Scale /\ position_size > 10 * Scale
        THEN Round2(RoundDiv(position_size, 100))
        ELSE position_size

\* calculate_trade_parameters returned None
CalcNone ==
    [ok |-> FALSE, ticker |-> "", direction |-> "", original_price |-> 0,
     price_level |-> 0, entry_price |-> 0, stop_distance |-> 0,
     limit_distance |-> 0, position_size |-> 0, max_position_size_gbp |-> 0]

\* calculate_trade_parameters(ticker, direction, opening_price, atr_values, ig_price)
CalculateTradeParameters(table, ticker, direction, opening_price, atr_values, ig_price) ==
    IF RowsOf(table, ticker) = {} THEN CalcNone
    ELSE
    LET row == FirstRow(table, ticker)
        max_period == Max2(row.SlPeriod, row.TpPeriod)
        price_level == PriceLevel(direction, opening_price, row.OpeningMultiple)
        entry_price == IF ig_price.has THEN NormalizePrice(price_level, ig_price)
                       ELSE price_level
        atr_sl == SelectAtr(atr_values, row.SlPeriod, max_period, opening_price, 1)
        atr_tp == SelectAtr(atr_values, row.TpPeriod, max_period, opening_price, 2)
        raw_stop == Abs(MulPct(atr_sl, row.SlMultiple))
        raw_limit == Abs(MulPct(atr_tp, row.TpMultiple))
        clamped_stop == ClampMax(raw_stop, price_level, MAX_STOP_PERCENT)
        clamped_limit == ClampMax(raw_limit, price_level, MAX_LIMIT_PERCENT)
        d == IF ig_price.has THEN FormatExponent(ig_price.v, price_level) ELSE 0
        stop_distance == FloorMin(ScalePow10(clamped_stop, d), price_level)
        limit_distance == FloorMin(ScalePow10(clamped_limit, d), price_level)
    IN  IF \/ (Len(atr_values) >= max_period
                /\ ~(PyIndexOk(atr_values, row.SlPeriod - 1)
                     /\ PyIndexOk(atr_values, row.TpPeriod - 1)))   \* IndexError
           \/ entry_price = 0                                       \* ZeroDivisionError
        THEN CalcNone
        ELSE [ok |-> TRUE, ticker |-> ticker,
              direction |-> TradeDirection(direction),
              original_price |-> Round4(opening_price),
              price_level |-> Round4(price_level),
              entry_price |-> Round4(entry_price),
              stop_distance |-> Round2(stop_distance),
              limit_distance |-> Round2(limit_distance),
              position_size |-> Round2(PositionSize(row.MaxGbp, entry_price)),
              max_position_size_gbp |-> row.MaxGbp]

\* ------------------------------------------------ inputs of the calculator

\* test_calc.py's ATR series
AtrSpec == << 60000, 181900, 237800, 283900, 320400,
             347800, 368000, 383000, 394000, 402300 >>

\* ten small ATR values (0.004 and 0.003), as of a currency pair
AtrTiny == << 400, 400, 300, 300, 300, 300, 300, 300, 300, 300 >>

\* ten large ATR values (100.0 and 150.0): the raw distances pass the maxima
AtrHuge == << 10000000, 10000000, 10000000, 15000000, 15000000,
              15000000, 15000000, 15000000, 15000000, 15000000 >>

\* zero and negative entries
AtrZero == << 0, 0, -1000, 0, 0, 0, 0, 0, 0, 0 >>

\* a series shorter than the configured periods
AtrShort == << 60000, 181900, 237800 >>

PositiveAtr(atr) == \A i \in 1..Len(atr) : atr[i] > 0

\* live quotes: none, 0, 0.5, 1.2, 190.0, 1540.0, 1900.0
CalcQuotes == { None, Some(0), Some(50000), Some(120000), Some(19000000),
                Some(154000000), Some(190000000) }

CalcTickers == { r.Symbol : r \in TickerRows } \cup { "NYSE:XXX" }

CalcInputs ==
    [ticker : CalcTickers,
     direction : { "UP", "DOWN", "SIDEWAYS" },
     price : { 0, 120000, 1568000, 18980000, 120000000 },   \* 0 to 1200.0
     atr : { AtrSpec, AtrTiny, AtrHuge, AtrZero, AtrShort },
     ig_price : CalcQuotes]

NoCalcInput ==
    [ticker |-> "", direction |-> "", price |-> 0, atr |-> << >>, ig_price |-> None]

\* ------------------------------------------------------- alert messages

\* one whitespace-separated token of an alert line: a number float() accepts,
\* or any other text
Word(s) == [num |-> FALSE, s |-> s, v |-> 0]

Num(x) == [num |-> TRUE, s |-> "", v |-> x]

\* "TICKER DIRECTION OPENING_PRICE ATR1 ... ATRn"
AlertLine(ticker, direction, price, atr) ==
    << Word(ticker), Word(direction), Num(price) >> \o [i \in 1..Len(atr) |-> Num(atr[i])]

ParseNone ==
    [ok |-> FALSE, ticker |-> "", direction |-> "", opening_price |-> 0,
     atr_values |-> << >>]

\* a faulty parser: every token after the price is taken as an ATR value
ParseAlertMessageAll(parts) ==
    IF Len(parts) < 13 THEN ParseNone
    ELSE IF \E i \in 3..13 : ~parts[i].num THEN ParseNone
    ELSE [ok |-> TRUE, ticker |-> parts[1].s, direction |-> parts[2].s,
          opening_price |-> parts[3].v,
          atr_values |-> [i \in 1..(Len(parts) - 3) |-> parts[i + 3].v]]

\* a faulty parser: a token float() rejects is read as 0
ParseAlertMessageLenient(parts) ==
    IF Len(parts) < 13 THEN ParseNone
    ELSE [ok |-> TRUE, ticker |-> parts[1].s, direction |-> parts[2].s,
          opening_price |-> parts[3].v,
          atr_values |-> [i \in 1..10 |-> parts[i + 3].v]]

\* parse_alert_message: None for fewer than 13 tokens or a token float() rejects
ParseAlertMessage(parts) ==
    IF Len(parts) < 13 THEN ParseNone
    ELSE IF \E i \in 3..13 : ~parts[i].num THEN ParseNone
    ELSE [ok |-> TRUE, ticker |-> parts[1].s, direction |-> parts[2].s,
          opening_price |-> parts[3].v,
          atr_values |-> [i \in 1..10 |-> parts[i + 3].v]]

MsgSRP == AlertLine("LSE_DLY:SRP", "UP", 18980000, AtrSpec)

MsgGNE == AlertLine("BATS:GNE", "DOWN", 1568000, AtrSpec)

MsgEUR == AlertLine("EURUSD", "UP", 120000, AtrTiny)

\* a configured ticker whose IG EPIC is "?"
MsgNEW == AlertLine("LSE_DLY:NEW", "UP", 18980000, AtrSpec)

\* a ticker that is not in the table
MsgXXX == AlertLine("NYSE:XXX", "DOWN", 18980000, AtrSpec)

\* a reference price of 0: the calculator divides by it
MsgZeroPrice == AlertLine("LSE_DLY:SRP", "UP", 0, AtrSpec)

\* too few tokens, and a token that is not a number
MsgShort == SubSeq(MsgSRP, 1, 10)

MsgNotNumber == [MsgSRP EXCEPT ![5] = Word("n/a")]

\* more than 13 tokens: a fourteenth number and a trailing word
MsgLong == MsgGNE \o << Num(999900000), Word("close") >>

AlertMessages ==
    { MsgSRP, MsgGNE, MsgEUR, MsgNEW, MsgXXX, MsgZeroPrice, MsgShort, MsgNotNumber,
      MsgLong }

\* a well-formed alert line: ticker, UP|DOWN, price, ten ATR values
WellFormed(parts) ==
    /\ ParseAlertMessage(parts).ok
    /\ Len(parts) = 13
    /\ parts[2].s \in { "UP", "DOWN" }

\* ------------------------------------------------ orchestrator: settings

MAX_OPEN_POSITIONS == 10

ALERT_MAX_AGE_SECONDS == 5

RuleNames ==
    { "check_same_day_trades", "check_open_position_limit", "check_existing_position",
      "check_alert_timestamp", "check_dividend_date" }

\* load_settings: the validation rules, all enabled by default
DefaultRules == [r \in RuleNames |-> TRUE]

\* the rule sets explored: the default, everything disabled, each check the
\* only one disabled and the same-day check the only one enabled
RuleSets ==
    { DefaultRules, [r \in RuleNames |-> FALSE],
      [r \in RuleNames |-> r = "check_same_day_trades"] }
    \cup { [DefaultRules EXCEPT ![r] = FALSE] : r \in RuleNames }

\* the timestamp argument of process_alert: absent, an epoch time (given by
\* its age in seconds on arrival), or a number no date can represent
TsNone == [kind |-> "none", age |-> 0]

TsAge(a) == [kind |-> "age", age |-> a]

Timestamps ==
    { TsNone, TsAge(ALERT_MAX_AGE_SECONDS), TsAge(ALERT_MAX_AGE_SECONDS + 1),
      [kind |-> "out_of_range", age |-> 0] }

\* a faulty age: every alert counts as just sent
AlertAgeZero(timestamp) == 0

\* (now - alert_time).total_seconds(); time.time() when no timestamp is given
AlertAge(timestamp) == IF timestamp.kind = "none" THEN 0 ELSE timestamp.age

\* ------------------------------------------------- broker gateway responses

\* _get_market_details: None, or the market's details; current_price is
\* None when the snapshot carries no bid or offer
NoDetails ==
    [ok |-> FALSE, current_price |-> None, market_status |-> "", min_stop_distance |-> 0]

Details(price, status, min_stop) ==
    [ok |-> TRUE, current_price |-> price, market_status |-> status,
     min_stop_distance |-> min_stop]

\* quotes 1.2 (the format of EURUSD's alert), 190.0 (the format of
\* LSE_DLY:SRP's alert) and 1540.0 (BATS:GNE in cents)
MarketResponses ==
    { NoDetails,
      Details(None, "TRADEABLE", 0),
      Details(Some(120000), "TRADEABLE", 0),
      Details(Some(19000000), "TRADEABLE", 0),
      Details(Some(154000000), "CLOSED", 100000) }

\* get_open_positions: None, or the open positions, of which the model keeps
\* the count and whether one is on the alert's EPIC
NoPositions == [ok |-> FALSE, count |-> 0, on_epic |-> FALSE]

Positions(count, on_epic) == [ok |-> TRUE, count |-> count, on_epic |-> on_epic]

PositionResponses ==
    { NoPositions, Positions(0, FALSE), Positions(1, TRUE),
      Positions(MAX_OPEN_POSITIONS - 1, FALSE), Positions(MAX_OPEN_POSITIONS, FALSE) }

\* get_all_positions(...).get('positions', []): empty when the fetch failed
PositionsOf(response) == IF response.ok THEN response ELSE Positions(0, FALSE)

\* what create_position meets: no session, no market details, the broker's
\* answer to the order (200 with or without a dealReference, another status)
\* or an exception while posting
CreateOutcomes ==
    { "no_session", "no_details", "accepted", "accepted_no_reference", "rejected",
      "exception" }

\* a faulty reading of the broker's answer: every answer counts as a success
AcceptedAlways(outcome) == TRUE

\* create_position's result has status success: the broker answered 200
Accepted(outcome) == outcome \in { "accepted", "accepted_no_reference" }

\* ------------------------------------------------- orchestrator: results

\* no result yet
NoResult ==
    [kind |-> "none", status |-> "", message |-> "", ticker |-> "",
     deal_reference |-> ""]

\* a returned status object; ticker is the ticker its message names ("" when
\* the message names none)
Error(message, ticker) ==
    [kind |-> "returned", status |-> "error", message |-> message, ticker |-> ticker,
     deal_reference |-> ""]

Success(message, ticker, deal_reference) ==
    [kind |-> "returned", status |-> "success", message |-> message,
     ticker |-> ticker, deal_reference |-> deal_reference]

\* an exception leaving the call
Raised(exception) ==
    [kind |-> "raised", status |-> "", message |-> exception, ticker |-> "",
     deal_reference |-> ""]

\* an entry of today_trades; a ticker without an entry has present = FALSE.
\* _execute_trade writes time, params, epic and deal_reference; process_alert
\* writes time and direction.  The time is kept as its calendar day.
NoTrade ==
    [present |-> FALSE, day |-> 0, has_params |-> FALSE, epic |-> "",
     deal_reference |-> "", direction |-> ""]

ExecutedTrade(day, epic, deal_reference) ==
    [present |-> TRUE, day |-> day, has_params |-> TRUE, epic |-> epic,
     deal_reference |-> deal_reference, direction |-> ""]

\* a faulty record: process_alert keeps nothing of the trade
RecordedTradeNothing(day, direction) == NoTrade

RecordedTrade(day, direction) ==
    [present |-> TRUE, day |-> day, has_params |-> FALSE, epic |-> "",
     deal_reference |-> "", direction |-> direction]

\* check_position_status(ticker=...) up to its call of the broker: the deal
\* reference it finds in today_trades, or its error
CheckPositionStatus(trades, ticker) ==
    IF ~trades[ticker].present
    THEN [found |-> FALSE, deal_reference |-> "",
          message |-> "No trade found today for ticker {ticker}"]
    ELSE IF trades[ticker].deal_reference = ""
    THEN [found |-> FALSE, deal_reference |-> "",
          message |-> "No deal reference found for ticker {ticker}"]
    ELSE [found |-> TRUE, deal_reference |-> trades[ticker].deal_reference,
          message |-> ""]

\* ---------------------------------------------- orchestrator: validation

\* get_epic: the row's IG EPIC, None ("") when the symbol has no row or "?"
GetEpic(table, symbol) ==
    IF RowsOf(table, symbol) /= {} /\ FirstRow(table, symbol).Epic /= "?"
    THEN FirstRow(table, symbol).Epic
    ELSE ""

\* is_dividend_date: the row's next dividend date is today
IsDividendDate(table, ticker, today) ==
    /\ table /= {}
    /\ RowsOf(table, ticker) /= {}
    /\ FirstRow(table, ticker).DividendDay /= 0
    /\ FirstRow(table, ticker).DividendDay = today

\* a faulty same-day check: every ticker counts as traded
AlreadyTradedAlways(rules, trades, ticker) == rules["check_same_day_trades"]

\* a faulty same-day check: no ticker counts as traded
AlreadyTradedNever(rules, trades, ticker) == FALSE

\* the same-day check: enabled, and the ticker has an entry in today_trades
AlreadyTraded(rules, trades, ticker) ==
    rules["check_same_day_trades"] /\ trades[ticker].present

\* a faulty validation: the checks against the open positions are left out
ValidateTradeUnchecked(table, rules, trades, ticker, today, first, second) ==
    IF table = {} THEN [error |-> Error("Ticker data not loaded", ""), fetched |-> 0]
    ELSE IF RowsOf(table, ticker) = {}
    THEN [error |-> Error("Ticker {ticker} not found in configuration", ticker),
          fetched |-> 0]
    ELSE IF AlreadyTraded(rules, trades, ticker)
    THEN [error |-> Error("Already traded {ticker} today at {time}", ticker),
          fetched |-> 0]
    ELSE [error |-> NoResult, fetched |-> 0]

\* _validate_trade against the two answers the broker would give to
\* get_open_positions: [error, fetched], error the validation error or
\* NoResult, fetched the number of position fetches made
ValidateTrade(table, rules, trades, ticker, today, first, second) ==
    LET epic == GetEpic(table, ticker) IN
    IF table = {} THEN [error |-> Error("Ticker data not loaded", ""), fetched |-> 0]
    ELSE IF RowsOf(table, ticker) = {}
    THEN [error |-> Error("Ticker {ticker} not found in configuration", ticker),
          fetched |-> 0]
    ELSE IF epic = ""
    THEN [error |-> Error("No IG EPIC code found for {ticker} in CSV", ticker),
          fetched |-> 0]
    ELSE IF rules["check_existing_position"] /\ PositionsOf(first).on_epic
    THEN [error |-> Error("Position already exists for {ticker}", ticker),
          fetched |-> 1]
    ELSE
    LET before == IF rules["check_existing_position"] THEN 1 ELSE 0
        limit_answer == IF rules["check_existing_position"] THEN second ELSE first
    IN  IF AlreadyTraded(rules, trades, ticker)
        THEN [error |-> Error("Already traded {ticker} today at {time}", ticker),
              fetched |-> before]
        ELSE IF /\ rules["check_open_position_limit"]
                /\ PositionsOf(limit_answer).count >= MAX_OPEN_POSITIONS
        THEN [error |-> Error("Maximum open positions limit ({max}) reached", ""),
              fetched |-> before + 1]
        ELSE IF rules["check_dividend_date"] /\ IsDividendDate(table, ticker, today)
        THEN [error |-> Error("Today is a dividend date for {ticker} ({date})", ticker),
              fetched |-> before
                          + (IF rules["check_open_position_limit"] THEN 1 ELSE 0)]
        ELSE [error |-> NoResult,
              fetched |-> before
                          + (IF rules["check_open_position_limit"] THEN 1 ELSE 0)]

\* ------------------------------------------- orchestrator: order values

MAX_EXPECTED_TRADE_VALUE == 15000

\* no order prepared
NoOrder ==
    [epic |-> "", direction |-> "", size |-> 0, limit_level |-> 0,
     limit_distance |-> 0, stop_distance |-> 0]

\* the exponent d of ig_format_multiplier = 10 ** d (0: the multiplier is 1.0)
IgFormatExponent(current_price, price_level) ==
    IF current_price > 0 /\ price_level > 0
    THEN LET digit_diff == IntDigits(current_price) - IntDigits(price_level)
         IN  IF Abs(digit_diff) >= 2 THEN digit_diff ELSE 0
    ELSE 0

\* limit_level = round(price_level * ig_format_multiplier, 4)
LimitLevel(current_price, price_level) ==
    Round4(ScalePow10(price_level, IgFormatExponent(current_price, price_level)))

\* a distance of the calculator in the quote's format: multiplied by
\* current_price / limit_level when both are 100 or more and differ by more
\* than 10%, by the format multiplier otherwise
ScaledDistance(original, current_price, price_level) ==
    LET limit_level == LimitLevel(current_price, price_level)
        d == IgFormatExponent(current_price, price_level)
    IN  IF current_price >= 100 * Scale /\ limit_level >= 100 * Scale
        THEN IF 10 * Abs(current_price - limit_level) > limit_level
             THEN RoundMulDiv(original, current_price, limit_level)
             ELSE original
        ELSE ScalePow10(original, d)

\* min_distance = max(min_stop_distance, current_price * 0.001), the market's
\* minimum being 1% of the price when the broker reports 0
MinOrderDistance(current_price, min_stop_distance) ==
    Max2(IF min_stop_distance = 0 THEN MulPct(current_price, 1) ELSE min_stop_distance,
         RoundDiv(current_price, 1000))

\* the distance sent: raised to the minimum, divided by 100 above 1000,
\* divided by 100 (to one decimal) above 10% of the limit level, one decimal
FinalDistance(original, current_price, price_level, min_stop_distance) ==
    LET limit_level == LimitLevel(current_price, price_level)
        scaled == ScaledDistance(original, current_price, price_level)
        min_distance == MinOrderDistance(current_price, min_stop_distance)
        raised == Abs(IF scaled < min_distance THEN min_distance ELSE scaled)
        reduced == IF raised > 1000 * Scale THEN RoundDiv(raised, 100) ELSE raised
        reasonable == IF reduced > RoundDiv(limit_level, 10)
                      THEN Round1(RoundDiv(reduced, 100))
                      ELSE reduced
    IN  Round1(reasonable)

\* the size sent: 15000 / limit_level when the level is above 100 and the
\* trade's value above 15000 pounds, one decimal
FinalSize(position_size, limit_level) ==
    IF /\ limit_level > 100 * Scale
       /\ position_size > LongDiv(MAX_EXPECTED_TRADE_VALUE, 10, limit_level).q
    THEN (Scale \div 10) * RoundLongDiv(MAX_EXPECTED_TRADE_VALUE, 6, limit_level)
    ELSE Round1(position_size)

\* the arguments _execute_trade passes to create_position
OrderValues(epic, trade_params, current_price, min_stop_distance) ==
    [epic |-> epic,
     direction |-> trade_params.direction,
     size |-> FinalSize(trade_params.position_size,
                        LimitLevel(current_price, trade_params.price_level)),
     limit_level |-> LimitLevel(current_price, trade_params.price_level),
     limit_distance |-> FinalDistance(trade_params.limit_distance, current_price,
                                      trade_params.price_level, min_stop_distance),
     stop_distance |-> FinalDistance(trade_params.stop_distance, current_price,
                                     trade_params.price_level, min_stop_distance)]

\* _create_limit_position's request: stopDistance and limitDistance are put
\* into the payload only when the distance is above 0
DistanceSent(distance) == IF distance > 0 THEN Some(distance) ELSE None

\* ------------------------------------------------ dashboard accounts

(***************************************************************************)
(* Passwords and stored credentials are strings.  A string is a word typed *)
(* by somebody, or the hexadecimal SHA-256 digest of a string: [word,      *)
(* hashes] is the word hashed that many times.  No string is its own       *)
(* digest and different strings have different digests.                    *)
(***************************************************************************)
Plain(word) == [word |-> word, hashes |-> 0]

\* hash_password: hashlib.sha256(password.encode()).hexdigest()
HashPassword(password) == [password EXCEPT !.hashes = @ + 1]

\* the username and password fields of a form: "" is a field left empty; a
\* password may be the digest of another, typed in as text
Usernames == { "admin", "alice" }

PasswordsEntered ==
    { Plain(""), Plain("admin"), Plain("secret"), HashPassword(Plain("secret")) }

\* an entry of users.json; a username without an entry has present = FALSE
NoUser == [present |-> FALSE, password |-> Plain(""), role |-> "", login_count |-> 0]

User(password, role, login_count) ==
    [present |-> TRUE, password |-> password, role |-> role, login_count |-> login_count]

\* init_users_file: the account admin with the password "admin"
DefaultUsers ==
    [u \in Usernames |->
        IF u = "admin" THEN User(HashPassword(Plain("admin")), "admin", 0) ELSE NoUser]

\* verify_password(username, password) against the users file
VerifyPassword(file, username, password) ==
    /\ username \in Usernames
    /\ file[username].present
    /\ file[username].password = HashPassword(password)

\* authenticate_user(username, password): (authenticated, role)
AuthenticateUser(file, username, password) ==
    IF VerifyPassword(file, username, password)
    THEN [ok |-> TRUE, role |-> file[username].role]
    ELSE [ok |-> FALSE, role |-> ""]

\* the Flask session: nobody logged in, or a user and the role of the login
NoSession == [user |-> "", role |-> ""]

\* ------------------------------------------------------------------ state

\* the calendar days explored, and the threads that may run process_alert
MaxDay == 2

\* the calls of the calculator made with the same arguments
MaxCalls == 2

\* the logins counted for one account
MaxLogins == 2

NumWorkers == 2

Workers == 1..NumWorkers

Tickers == CalcTickers

VARIABLES
    calc_in,          \* the arguments of the calculator call under test
    calc_called,      \* whether calculate_trade_parameters has been applied to them
    calc_calls,       \* how many times it has been applied to them
    calc_out,         \* what it returned
    ticker_data,      \* TradeManager.ticker_data: the rows loaded ({}: loading failed)
    validation_rules, \* TradeManager.validation_rules
    today_trades,     \* TradeManager.today_trades: ticker -> entry
    today,            \* the calendar day (datetime.now())
    last_reset_day,   \* WebhookHandler.last_reset_day
    call,             \* worker -> its call of process_alert: position, locals, result
    collaborators,    \* what WebhookHandler was constructed with
    web,              \* the webhook request being processed, and its outcome
    users,            \* users.json: username -> entry
    session           \* the dashboard session of the browser

calcVars == << calc_in, calc_called, calc_calls, calc_out >>

managerVars == << ticker_data, validation_rules, today_trades, today, last_reset_day, call >>

webVars == << collaborators, web >>

authVars == << users, session >>

vars == << calc_in, calc_called, calc_calls, calc_out, ticker_data, validation_rules,
           today_trades, today, last_reset_day, call, collaborators, web, users,
           session >>

\* a worker that is not inside process_alert.  The counters count, for the
\* alert being processed, the broker's position fetches and quote fetches,
\* the calls of calculate_trade_parameters and of create_position, and the
\* orders posted to the broker; broker_answer is what create_position met.
IdleCall ==
    [pc |-> "idle", alert_message |-> << >>, timestamp |-> TsNone, arrived |-> 0,
     ticker |-> "", direction |-> "", opening_price |-> 0, atr_values |-> << >>,
     epic |-> "", current_price |-> 0, trade_params |-> CalcNone,
     order |-> NoOrder, broker_answer |-> "", result |-> NoResult,
     positions_fetched |-> 0, quotes_fetched |-> 0, calculated |-> 0,
     create_calls |-> 0, orders_posted |-> 0]

\* the call ends with this result
Finish(c, result) == [c EXCEPT !.pc = "done", !.result = result]

\* the users file as first created, nobody logged in
AuthIdle == users = DefaultUsers /\ session = NoSession

\* no calculator call under test
CalcIdle ==
    calc_in = NoCalcInput /\ calc_called = FALSE /\ calc_calls = 0 /\ calc_out = CalcNone

ManagerIdle ==
    /\ ticker_data = TickerRows
    /\ validation_rules = DefaultRules
    /\ today_trades = [t \in Tickers |-> NoTrade]
    /\ today = 1
    /\ last_reset_day = 1
    /\ call = [w \in Workers |-> IdleCall]

\* ------------------------------------------------------ the webhook layer

(***************************************************************************)
(* WebhookHandler is constructed with a broker gateway and a settings      *)
(* manager.  app.py constructs it with neither ("none"); the test suite    *)
(* passes doubles that accept every call process_webhook makes             *)
(* ("doubles"); "IGClient" is a settings manager with the repository's     *)
(* IGClient, whose create_position and create_working_order do not take    *)
(* the keywords process_webhook passes.                                    *)
(***************************************************************************)
\* a request body: a JSON object with the fields process_webhook and the
\* senders of the repository use ("" and << >>: the field is absent), or
\* text that is no JSON object
Payload(json, symbol, direction, size, message, test_mode) ==
    [json |-> json, symbol |-> symbol, direction |-> direction, size |-> size,
     message |-> message, test_mode |-> test_mode]

NoPayload == Payload(FALSE, "", "", 0, << >>, "absent")

Payloads ==
    { Payload(TRUE, s, d, z, m, t) :
        s \in { "", "EURUSD", "LSE:SRP", "NYSE:XXX" },
        d \in { "", "BUY", "UP" },
        z \in { 0, 2 * Scale },
        m \in { << >>, MsgSRP },
        t \in { "absent", "true", "false" } }
    \cup { Payload(FALSE, "", "", 0, MsgSRP, "absent") }

\* symbol.split(':')[1] of the symbols used ("" when there is no ':')
BaseSymbol(symbol) ==
    CASE symbol = "LSE:SRP" -> "SRP"
      [] symbol = "LSE_DLY:SRP" -> "SRP"
      [] symbol = "LSE_DLY:NEW" -> "NEW"
      [] symbol = "LSE_DLY:ZER" -> "ZER"
      [] symbol = "BATS:GNE" -> "GNE"
      [] symbol = "NYSE:XXX" -> "XXX"
      [] OTHER -> ""

\* str.contains on the symbols used: the base symbol occurs in the row's symbol
SymbolContains(row_symbol, base) == base /= "" /\ BaseSymbol(row_symbol) = base

\* a faulty conversion: a symbol without a match gets the EPIC of some row
ConvertSymbolToEpicAny(table, symbol) ==
    IF RowsOf(table, symbol) /= {} THEN FirstRow(table, symbol).Epic
    ELSE IF table /= {} THEN (CHOOSE r \in table : TRUE).Epic
    ELSE ""

\* _convert_symbol_to_epic: the row with that symbol, else a row whose
\* symbol contains the part after ':'; None ("") when there is none
ConvertSymbolToEpic(table, symbol) ==
    IF RowsOf(table, symbol) /= {} THEN FirstRow(table, symbol).Epic
    ELSE IF \E r \in table : SymbolContains(r.Symbol, BaseSymbol(symbol))
    THEN (CHOOSE r \in table : SymbolContains(r.Symbol, BaseSymbol(symbol))).Epic
    ELSE ""

\* _get_position_size: the row's maximum position size, 100.0 without a row
GetPositionSize(table, epic) ==
    IF \E r \in table : r.Epic = epic
    THEN (CHOOSE r \in table : r.Epic = epic).MaxGbp * Scale
    ELSE 100 * Scale

\* no request in progress.  The counters count, for the request, the calls
\* of create_position and create_working_order the gateway received and the
\* calls of TradeManager.process_alert; details is the status of the result
\* the gateway returned ("": it returned none).
WebNone ==
    [pc |-> "idle", payload |-> NoPayload, status |-> "", message |-> "",
     epic |-> "", size |-> 0, details |-> "",
     create_position_calls |-> 0, create_working_order_calls |-> 0,
     process_alert_calls |-> 0]

WebDone(payload, status, message) ==
    [WebNone EXCEPT !.pc = "done", !.payload = payload, !.status = status,
                    !.message = message]

WebIdle == collaborators = "none" /\ web = WebNone

\* process_webhook(data) with the settings' default order type, the market
\* status the gateway reports ("": no market details) and the status of the
\* result its order call returns
ProcessWebhook(data, default_order_type, market_status, result) ==
    LET epic == ConvertSymbolToEpic(TickerRows, data.symbol)
        size == IF data.size = 0 THEN GetPositionSize(TickerRows, epic) ELSE data.size
        status == IF market_status = "" THEN "CLOSED" ELSE market_status
        working == status \in { "CLOSED", "EDITS_ONLY" }
                     \/ default_order_type = "WORKING_ORDER"
    IN  /\ web.pc = "idle"
        /\ web' =
             IF ~data.json   \* str has no get: AttributeError
             THEN WebDone(data, "error", "Error processing webhook: {e}")
             ELSE IF data.symbol = "" \/ data.direction = ""
             THEN WebDone(data, "error",
                          "Missing required fields: symbol and direction are required")
             ELSE IF collaborators = "none"   \* None has no get_settings: AttributeError
             THEN WebDone(data, "error", "Error processing webhook: {e}")
             ELSE IF epic = ""
             THEN WebDone(data, "error", "Invalid symbol: {symbol}")
             ELSE IF data.direction \notin { "BUY", "SELL" }
             THEN WebDone(data, "error",
                          "Invalid direction: {direction}. Must be BUY or SELL")
             ELSE IF collaborators = "IGClient"   \* unexpected keyword: TypeError
             THEN [WebDone(data, "error", "Error processing webhook: {e}")
                     EXCEPT !.epic = epic, !.size = size]
             ELSE [WebDone(data, "success", "Webhook processed successfully")
                     EXCEPT !.epic = epic, !.size = size, !.details = result,
                            !.create_working_order_calls = IF working THEN 1 ELSE 0,
                            !.create_position_calls = IF working THEN 0 ELSE 1]
        /\ UNCHANGED << authVars, calcVars, managerVars, collaborators >>

\* the response has been sent
WebReturn ==
    /\ web.pc = "done"
    /\ web' = WebNone
    /\ UNCHANGED << authVars, calcVars, managerVars, collaborators >>

InitWeb ==
    /\ AuthIdle
    /\ CalcIdle
    /\ ManagerIdle
    /\ collaborators \in { "none", "doubles", "IGClient" }
    /\ web = WebNone

NextWeb ==
    \/ \E data \in Payloads,
          default_order_type \in { "LIMIT", "MARKET", "WORKING_ORDER" },
          market_status \in { "TRADEABLE", "CLOSED", "EDITS_ONLY", "" },
          result \in { "success", "error" } :
            ProcessWebhook(data, default_order_type, market_status, result)
    \/ WebReturn

SpecWeb == InitWeb /\ [][NextWeb]_vars

\* ------------------------------------------------- the dashboard's accounts

\* @admin_required: somebody is logged in, with the role admin
AdminSession == session.user /= "" /\ session.role = "admin"

\* the login route: authenticate_user, which counts the login in the users
\* file, then the session is set
Login(username, password) ==
    LET authenticated == AuthenticateUser(users, username, password)
    IN  /\ authenticated.ok => users[username].login_count < MaxLogins
        /\ IF authenticated.ok
           THEN /\ users' = [users EXCEPT ![username].login_count = @ + 1]
                /\ session' = [user |-> username, role |-> authenticated.role]
           ELSE UNCHANGED authVars
        /\ UNCHANGED << calcVars, managerVars, webVars >>

\* the logout route
Logout ==
    /\ session.user /= ""
    /\ session' = NoSession
    /\ UNCHANGED << calcVars, managerVars, webVars, users >>

\* the route /admin/users/add; saved: the users file could be written
AddUser(username, password, role, saved) ==
    /\ AdminSession
    /\ users' = IF username = "" \/ password = Plain("") THEN users
                ELSE IF users[username].present THEN users
                ELSE IF saved THEN [users EXCEPT ![username] = User(password, role, 0)]
                ELSE users
    /\ UNCHANGED << calcVars, managerVars, webVars, session >>

\* the route /admin/users/delete/<username>
DeleteUser(username, saved) ==
    /\ AdminSession
    /\ users' = IF username = session.user THEN users
                ELSE IF ~users[username].present THEN users
                ELSE IF saved THEN [users EXCEPT ![username] = NoUser]
                ELSE users
    /\ UNCHANGED << calcVars, managerVars, webVars, session >>

\* the route /admin/users/change-password
ChangePassword(username, password, saved) ==
    /\ AdminSession
    /\ users' = IF username = "" \/ password = Plain("") THEN users
                ELSE IF ~users[username].present THEN users
                ELSE IF saved THEN [users EXCEPT ![username].password = password]
                ELSE users
    /\ UNCHANGED << calcVars, managerVars, webVars, session >>

InitAuth ==
    /\ CalcIdle
    /\ ManagerIdle
    /\ WebIdle
    /\ AuthIdle

NextAuth ==
    \/ \E username \in Usernames \cup { "" }, password \in PasswordsEntered :
          Login(username, password)
    \/ Logout
    \/ \E username \in Usernames \cup { "" }, password \in PasswordsEntered,
          role \in { "user", "admin" },
          saved \in BOOLEAN :
            AddUser(username, password, role, saved)
    \/ \E username \in Usernames, saved \in BOOLEAN : DeleteUser(username, saved)
    \/ \E username \in Usernames \cup { "" }, password \in PasswordsEntered,
          saved \in BOOLEAN :
            ChangePassword(username, password, saved)

SpecAuth == InitAuth /\ [][NextAuth]_vars

\* ---------------------------------------------- the calculator on its own

InitCalc ==
    /\ AuthIdle
    /\ calc_in \in CalcInputs
    /\ calc_called = FALSE
    /\ calc_calls = 0
    /\ calc_out = CalcNone
    /\ ManagerIdle
    /\ WebIdle

\* a faulty calculator that keeps state between calls: it answers only the
\* first call with given arguments
CalculateOnce ==
    /\ calc_calls < MaxCalls
    /\ calc_in /= NoCalcInput
    /\ calc_called' = TRUE
    /\ calc_calls' = calc_calls + 1
    /\ calc_out' = IF calc_called THEN CalcNone
                   ELSE CalculateTradeParameters(TickerRows, calc_in.ticker,
                            calc_in.direction, calc_in.price, calc_in.atr,
                            calc_in.ig_price)
    /\ UNCHANGED << calc_in, managerVars, webVars, authVars >>

\* one call of calculate_trade_parameters against the loaded ticker table;
\* the same arguments may be passed again
Calculate ==
    /\ calc_calls < MaxCalls
    /\ calc_in /= NoCalcInput
    /\ calc_called' = TRUE
    /\ calc_calls' = calc_calls + 1
    /\ calc_out' = CalculateTradeParameters(TickerRows, calc_in.ticker,
                       calc_in.direction, calc_in.price, calc_in.atr, calc_in.ig_price)
    /\ UNCHANGED << calc_in, managerVars, webVars, authVars >>

NextCalc == Calculate

SpecCalc == InitCalc /\ [][NextCalc]_vars

\* ------------------------------------------ the orchestrator: process_alert

\* process_alert is called: the timestamp is converted, the alert's age is
\* checked and the message parsed
ProcessAlert(w, alert_message, timestamp) ==
    LET parsed == ParseAlertMessage(alert_message)
        c == [IdleCall EXCEPT !.alert_message = alert_message,
                              !.timestamp = timestamp, !.arrived = today]
    IN  /\ call[w].pc = "idle"
        /\ call' = [call EXCEPT ![w] =
             IF timestamp.kind = "out_of_range"
             THEN Finish(c, Raised("OverflowError"))   \* datetime.fromtimestamp
             ELSE IF /\ validation_rules["check_alert_timestamp"]
                     /\ AlertAge(timestamp) > ALERT_MAX_AGE_SECONDS
             THEN Finish(c, Error("Alert is too old", ""))
             ELSE IF ~parsed.ok
             THEN Finish(c, Error("Failed to parse alert message", ""))
             ELSE [c EXCEPT !.pc = "validate", !.ticker = parsed.ticker,
                            !.direction = parsed.direction,
                            !.opening_price = parsed.opening_price,
                            !.atr_values = parsed.atr_values]]
        /\ UNCHANGED << authVars, calcVars, webVars, ticker_data, validation_rules,
                        today_trades, today,
                        last_reset_day >>

\* _validate_trade, then get_epic; first and second are the broker's answers
\* to the position fetches _validate_trade makes (it makes up to two)
Validate(w, first, second) ==
    /\ call[w].pc = "validate"
    /\ LET c == call[w]
           v == ValidateTrade(ticker_data, validation_rules, today_trades, c.ticker,
                              today, first, second)
           fetched == [c EXCEPT !.positions_fetched = v.fetched]
           epic == GetEpic(ticker_data, c.ticker)
       IN  call' = [call EXCEPT ![w] =
             IF v.error /= NoResult THEN Finish(fetched, v.error)
             ELSE IF epic = ""
             THEN Finish(fetched,
                         Error("No IG EPIC code found for {ticker} in CSV", c.ticker))
             ELSE [fetched EXCEPT !.pc = "quote", !.epic = epic]]
    /\ UNCHANGED << authVars, calcVars, webVars, ticker_data, validation_rules, today_trades, today,
                    last_reset_day >>

\* the live quote is fetched and the trade parameters are calculated with it
GetQuote(w) ==
    /\ call[w].pc = "quote"
    /\ \E market_details \in MarketResponses :
         LET c == [call[w] EXCEPT !.quotes_fetched = @ + 1]
             current_price == market_details.current_price
             trade_params ==
                 CalculateTradeParameters(ticker_data, c.ticker, c.direction,
                                          c.opening_price, c.atr_values, current_price)
         IN  call' = [call EXCEPT ![w] =
               IF ~market_details.ok
               THEN Finish(c, Error("Failed to get market details for {ticker}", c.ticker))
               ELSE IF ~current_price.has \/ current_price.v = 0
               THEN Finish(c, Error("Failed to get current price for {ticker}", c.ticker))
               ELSE IF ~trade_params.ok
               THEN Finish([c EXCEPT !.calculated = @ + 1],
                           Error("Failed to calculate trade parameters for {ticker}",
                                 c.ticker))
               ELSE [c EXCEPT !.pc = "execute", !.calculated = @ + 1,
                              !.current_price = current_price.v,
                              !.trade_params = trade_params]]
    /\ UNCHANGED << authVars, calcVars, webVars, ticker_data, validation_rules, today_trades, today,
                    last_reset_day >>

\* _execute_trade up to the call of create_position: the quote is fetched
\* again and the order's values are computed from it
ExecuteTrade(w) ==
    /\ call[w].pc = "execute"
    /\ \E market_details \in MarketResponses :
         LET c == call[w]
             epic == GetEpic(ticker_data, c.ticker)
             q == [c EXCEPT !.quotes_fetched = @ + 1]
         IN  call' = [call EXCEPT ![w] =
               IF epic = ""
               THEN Finish(c, Error("No IG EPIC code found for {ticker}", c.ticker))
               ELSE IF ~market_details.ok
               THEN Finish(q, Error("Failed to get market details for {ticker}", c.ticker))
               ELSE IF ~market_details.current_price.has   \* None in arithmetic: TypeError
               THEN Finish(q, Error("Error executing trade: {e}", c.ticker))
               ELSE [q EXCEPT !.pc = "submit",
                              !.order = OrderValues(epic, c.trade_params,
                                                    market_details.current_price.v,
                                                    market_details.min_stop_distance)]]
    /\ UNCHANGED << authVars, calcVars, webVars, ticker_data, validation_rules, today_trades, today,
                    last_reset_day >>

\* a faulty submission: a rejected order is posted a second time
CreatePositionRetry(w) ==
    /\ call[w].pc = "submit"
    /\ call' = [call EXCEPT ![w] =
           Finish([call[w] EXCEPT !.broker_answer = "rejected",
                                  !.create_calls = @ + 2,
                                  !.quotes_fetched = @ + 2,
                                  !.orders_posted = @ + 2],
                  Error("Failed to create order: {reason}", call[w].ticker))]
    /\ UNCHANGED << authVars, calcVars, webVars, ticker_data, validation_rules, today_trades, today,
                    last_reset_day >>

\* create_position and the rest of _execute_trade: the order is recorded in
\* today_trades when the broker accepted it
CreatePosition(w) ==
    /\ call[w].pc = "submit"
    /\ \E outcome \in CreateOutcomes :
         LET c == [call[w] EXCEPT
                     !.broker_answer = outcome,
                     !.create_calls = @ + 1,
                     !.quotes_fetched = IF outcome = "no_session" THEN @ ELSE @ + 1,
                     !.orders_posted =
                         IF outcome \in { "no_session", "no_details" } THEN @ ELSE @ + 1]
             deal_reference == IF outcome = "accepted" THEN "DIAAAABBBCCC" ELSE ""
         IN  IF Accepted(outcome)
             THEN /\ today_trades' = [today_trades EXCEPT ![c.ticker] =
                         ExecutedTrade(today, c.order.epic, deal_reference)]
                  /\ call' = [call EXCEPT ![w] =
                         [c EXCEPT !.pc = "record",
                                   !.result = Success("LIMIT order created for {ticker}",
                                                      c.ticker, deal_reference)]]
             ELSE /\ today_trades' = today_trades
                  /\ call' = [call EXCEPT ![w] =
                         Finish(c, Error("Failed to create order: {reason}", c.ticker))]
    /\ UNCHANGED << authVars, calcVars, webVars, ticker_data, validation_rules, today,
                    last_reset_day >>

\* back in process_alert after a successful _execute_trade: the trade is
\* recorded (the entry is replaced) and the result returned
RecordTrade(w) ==
    /\ call[w].pc = "record"
    /\ today_trades' = [today_trades EXCEPT ![call[w].ticker] =
           RecordedTrade(today, call[w].trade_params.direction)]
    /\ call' = [call EXCEPT ![w].pc = "done"]
    /\ UNCHANGED << authVars, calcVars, webVars, ticker_data, validation_rules, today,
                    last_reset_day >>

\* the caller has the result (or the exception); the worker is free again
Return(w) ==
    /\ call[w].pc = "done"
    /\ call' = [call EXCEPT ![w] = IdleCall]
    /\ UNCHANGED << authVars, calcVars, webVars, ticker_data, validation_rules, today_trades, today,
                    last_reset_day >>

\* the calendar day changes
Midnight ==
    /\ today < MaxDay
    /\ today' = today + 1
    /\ UNCHANGED << authVars, calcVars, webVars, ticker_data, validation_rules, today_trades,
                    last_reset_day, call >>

\* WebhookHandler._check_reset_daily_trades with TradeManager.reset_daily_trades.
\* Nothing in the repository calls it, so it is no part of any Next below.
CheckResetDailyTrades ==
    /\ IF today /= last_reset_day
       THEN /\ today_trades' = [t \in Tickers |-> NoTrade]
            /\ last_reset_day' = today
       ELSE UNCHANGED << today_trades, last_reset_day >>
    /\ UNCHANGED << authVars, calcVars, webVars, ticker_data, validation_rules, today, call >>

\* the manager after construction: the table as loaded (or empty when loading
\* failed), the rules of settings.json, no trades
InitManager ==
    /\ AuthIdle
    /\ CalcIdle
    /\ WebIdle
    /\ ticker_data \in { TickerRows, {} }
    /\ validation_rules \in RuleSets
    /\ today_trades = [t \in Tickers |-> NoTrade]
    /\ today = 1
    /\ last_reset_day = 1
    /\ call = [w \in Workers |-> IdleCall]

\* alerts are processed one at a time, by the first worker
FirstWorker == CHOOSE w \in Workers : \A v \in Workers : w <= v

Next ==
    \/ \E m \in AlertMessages, ts \in Timestamps : ProcessAlert(FirstWorker, m, ts)
    \/ \E first \in PositionResponses, second \in PositionResponses :
          Validate(FirstWorker, first, second)
    \/ GetQuote(FirstWorker)
    \/ ExecuteTrade(FirstWorker)
    \/ CreatePosition(FirstWorker)
    \/ RecordTrade(FirstWorker)
    \/ Return(FirstWorker)
    \/ Midnight

Spec == InitManager /\ [][Next]_vars

\* --------------------------- process_alert while positions cannot be fetched

(***************************************************************************)
(* The broker does not answer get_open_positions (no session, a status     *)
(* other than 200, an exception): every position fetch of _validate_trade  *)
(* fails.  Everything else is as in Spec.                                  *)
(***************************************************************************)
NextPositionsUnavailable ==
    \/ \E m \in AlertMessages, ts \in Timestamps : ProcessAlert(FirstWorker, m, ts)
    \/ Validate(FirstWorker, NoPositions, NoPositions)
    \/ GetQuote(FirstWorker)
    \/ ExecuteTrade(FirstWorker)
    \/ CreatePosition(FirstWorker)
    \/ RecordTrade(FirstWorker)
    \/ Return(FirstWorker)
    \/ Midnight

SpecPositionsUnavailable == InitManager /\ [][NextPositionsUnavailable]_vars

\* ---------------------------------------- process_alert on several threads

(***************************************************************************)
(* The web server handles requests on threads, and process_alert takes no  *)
(* lock: calls of process_alert interleave at the calls they make to the   *)
(* broker (_validate_trade's position fetches, the quote, create_position) *)
(* and share today_trades.  The alerts are fresh ones for two configured   *)
(* tickers, and the market is open at a quote of 190.0 throughout; the     *)
(* broker's answers to the position fetches and to the orders vary.        *)
(***************************************************************************)
ConcurrentQuote == Details(Some(19000000), "TRADEABLE", 0)

\* the quote fetched by this step of worker w was ConcurrentQuote
QuotedOpen(w) ==
    \/ /\ call'[w].pc = "execute"
       /\ call'[w].current_price = ConcurrentQuote.current_price.v
    \/ /\ call'[w].pc = "submit"
       /\ call'[w].order = OrderValues(call[w].epic, call[w].trade_params,
                                       ConcurrentQuote.current_price.v,
                                       ConcurrentQuote.min_stop_distance)

InitConcurrent ==
    /\ AuthIdle
    /\ CalcIdle
    /\ WebIdle
    /\ ticker_data = TickerRows
    /\ validation_rules = DefaultRules
    /\ today_trades = [t \in Tickers |-> NoTrade]
    /\ today = 1
    /\ last_reset_day = 1
    /\ call = [w \in Workers |-> IdleCall]

NextConcurrent ==
    \E w \in Workers :
        \/ \E m \in { MsgSRP, MsgEUR } : ProcessAlert(w, m, TsNone)
        \/ \E first \in PositionResponses, second \in PositionResponses :
              Validate(w, first, second)
        \/ GetQuote(w) /\ QuotedOpen(w)
        \/ ExecuteTrade(w) /\ QuotedOpen(w)
        \/ CreatePosition(w)
        \/ RecordTrade(w)
        \/ Return(w)

SpecConcurrent == InitConcurrent /\ [][NextConcurrent]_vars

\* ------------------------------------- properties of the calculator (SpecCalc)

\* the intermediate values of the call under test, from its arguments
CalcConfigured == RowsOf(TickerRows, calc_in.ticker) /= {}

CalcRow == FirstRow(TickerRows, calc_in.ticker)

computed_price_level ==
    PriceLevel(calc_in.direction, calc_in.price, CalcRow.OpeningMultiple)

raw_stop_distance ==
    Abs(MulPct(SelectAtr(calc_in.atr, CalcRow.SlPeriod,
                         Max2(CalcRow.SlPeriod, CalcRow.TpPeriod), calc_in.price, 1),
               CalcRow.SlMultiple))

raw_limit_distance ==
    Abs(MulPct(SelectAtr(calc_in.atr, CalcRow.TpPeriod,
                         Max2(CalcRow.SlPeriod, CalcRow.TpPeriod), calc_in.price, 2),
               CalcRow.TpMultiple))

price_format_exponent ==
    IF calc_in.ig_price.has
    THEN FormatExponent(calc_in.ig_price.v, computed_price_level)
    ELSE 0

\* the call returned parameters
CalcReturned == calc_called /\ calc_out.ok

(***************************************************************************)
(* C1: for every configured ticker, positive reference price and positive  *)
(* ATR series, with or without a live quote, the returned stop_distance,   *)
(* limit_distance and position_size (rounded to two decimals) are all      *)
(* greater than zero.                                                      *)
(***************************************************************************)
C1_ReturnedValuesPositive ==
    (calc_called /\ CalcConfigured /\ calc_in.price > 0 /\ PositiveAtr(calc_in.atr))
        => /\ calc_out.ok
           /\ calc_out.stop_distance > 0
           /\ calc_out.limit_distance > 0
           /\ calc_out.position_size > 0

(***************************************************************************)
(* C9: an alert direction UP gives trade direction SELL, DOWN gives BUY,   *)
(* and whatever the alert direction the returned direction is BUY or SELL. *)
(***************************************************************************)
C9_DirectionMapping ==
    CalcReturned
        => /\ calc_in.direction = "UP" => calc_out.direction = "SELL"
           /\ calc_in.direction = "DOWN" => calc_out.direction = "BUY"
           /\ calc_out.direction \in { "BUY", "SELL" }

\* a call with a direction that is neither UP nor DOWN returned BUY
C9_OtherDirectionBuys ==
    /\ CalcReturned
    /\ calc_in.direction \notin { "UP", "DOWN" }
    /\ calc_out.direction = "BUY"

(***************************************************************************)
(* C10 as stated: when the raw stop distance exceeds 15% of the computed   *)
(* price level the returned stop_distance is 15% of the computed price     *)
(* level (to the two decimals returned), and likewise 20% for the limit,   *)
(* with and without a live quote.                                          *)
(***************************************************************************)
C10_CapReturnedAsIs ==
    CalcReturned
        => /\ raw_stop_distance > MulPct(computed_price_level, MAX_STOP_PERCENT)
                => calc_out.stop_distance
                     = Round2(MulPct(computed_price_level, MAX_STOP_PERCENT))
           /\ raw_limit_distance > MulPct(computed_price_level, MAX_LIMIT_PERCENT)
                => calc_out.limit_distance
                     = Round2(MulPct(computed_price_level, MAX_LIMIT_PERCENT))

(***************************************************************************)
(* C10 amended: when the raw stop distance exceeds 15% of the computed     *)
(* price level (20% for the limit), the returned distance is that maximum  *)
(* multiplied by the price-format multiplier 10^d (d the difference in     *)
(* integer digits between the live quote and the price level when that is  *)
(* 2 or more either way, else 0, and 0 without a quote), raised to 0.1% of *)
(* the price level when lower, rounded to two decimals.                    *)
(***************************************************************************)
C10_CapScaledFlooredRounded ==
    CalcReturned
        => /\ raw_stop_distance > MulPct(computed_price_level, MAX_STOP_PERCENT)
                => calc_out.stop_distance
                     = Round2(FloorMin(ScalePow10(MulPct(computed_price_level,
                                                         MAX_STOP_PERCENT),
                                                  price_format_exponent),
                                       computed_price_level))
           /\ raw_limit_distance > MulPct(computed_price_level, MAX_LIMIT_PERCENT)
                => calc_out.limit_distance
                     = Round2(FloorMin(ScalePow10(MulPct(computed_price_level,
                                                          MAX_LIMIT_PERCENT),
                                                   price_format_exponent),
                                        computed_price_level))

\* both raw distances exceeded their maximum, the live quote is in another
\* price format, and the returned stop is not 15% of the price level
C10_CappedAndRescaled ==
    /\ CalcReturned
    /\ raw_stop_distance > MulPct(computed_price_level, MAX_STOP_PERCENT)
    /\ raw_limit_distance > MulPct(computed_price_level, MAX_LIMIT_PERCENT)
    /\ price_format_exponent /= 0
    /\ calc_out.stop_distance /= Round2(MulPct(computed_price_level, MAX_STOP_PERCENT))

\* the call under test has no live quote and neither raw distance is clamped:
\* both lie between 0.1% of the price level and their maximum
NoQuoteNoClamp ==
    /\ CalcReturned
    /\ ~calc_in.ig_price.has
    /\ raw_stop_distance <= MulPct(computed_price_level, MAX_STOP_PERCENT)
    /\ raw_limit_distance <= MulPct(computed_price_level, MAX_LIMIT_PERCENT)
    /\ raw_stop_distance >= MinDistance(computed_price_level)
    /\ raw_limit_distance >= MinDistance(computed_price_level)

\* the series has an entry for the stop period and for the profit period
PeriodsInSeries ==
    /\ CalcRow.SlPeriod \in 1..Len(calc_in.atr)
    /\ CalcRow.TpPeriod \in 1..Len(calc_in.atr)

\* test_calc.py's call: LSE_DLY:SRP UP 189.8 with its ATR series
SpecScenario ==
    /\ calc_in.ticker = "LSE_DLY:SRP" /\ calc_in.direction = "UP"
    /\ calc_in.price = 18980000 /\ calc_in.atr = AtrSpec

\* what C11 states of the returned values
C11Formula ==
    /\ calc_out.price_level
         = Round4(IF calc_in.direction = "DOWN"
                  THEN DivPct(calc_in.price, CalcRow.OpeningMultiple)
                  ELSE MulPct(calc_in.price, CalcRow.OpeningMultiple))
    /\ calc_out.stop_distance
         = Round2(MulPct(calc_in.atr[CalcRow.SlPeriod], CalcRow.SlMultiple))
    /\ calc_out.limit_distance
         = Round2(MulPct(calc_in.atr[CalcRow.TpPeriod], CalcRow.TpMultiple))

C14_NormalizeSamePrice ==
    (calc_called /\ CalcConfigured /\ calc_in.price > 0)
        => /\ NormalizePrice(calc_in.price, Some(calc_in.price)) = calc_in.price
           /\ (calc_in.ig_price.has /\ calc_in.ig_price.v = computed_price_level)
                => /\ calc_out.ok
                   /\ calc_out.entry_price = Round4(computed_price_level)
                   /\ calc_out.entry_price = calc_out.price_level

\* a call whose live quote equals its computed price level has returned
C14_QuoteEqualsPriceLevel ==
    /\ CalcReturned
    /\ calc_in.ig_price = Some(computed_price_level)
    /\ computed_price_level > 0
    /\ calc_out.entry_price = computed_price_level

C20_SameFactorForPriceAndDistances ==
    (CalcReturned /\ calc_in.ig_price.has /\ calc_in.ig_price.v > 0)
        => calc_out.entry_price
             = Round4(ScalePow10(computed_price_level, price_format_exponent))

\* the ATR the call under test selects for its stop leg and its profit leg
selected_stop_atr ==
    SelectAtr(calc_in.atr, CalcRow.SlPeriod, Max2(CalcRow.SlPeriod, CalcRow.TpPeriod),
              calc_in.price, 1)

selected_profit_atr ==
    SelectAtr(calc_in.atr, CalcRow.TpPeriod, Max2(CalcRow.SlPeriod, CalcRow.TpPeriod),
              calc_in.price, 2)

(***************************************************************************)
(* C23: when the stop period or the profit period of the ticker's row lies *)
(* outside 1..len(atr_values), the calculator takes 1% of the reference    *)
(* price as the stop ATR and 2% as the profit ATR and no entry of the      *)
(* series; with both periods in the series, a leg whose entry is <= 0      *)
(* takes its default and the other leg keeps its entry.                    *)
(***************************************************************************)
C23_OutOfBoundsPeriodUsesDefaults ==
    (calc_called /\ CalcConfigured /\ calc_in.price > 0)
    => IF \/ CalcRow.SlPeriod \notin 1..Len(calc_in.atr)
          \/ CalcRow.TpPeriod \notin 1..Len(calc_in.atr)
       THEN /\ selected_stop_atr = MulPct(calc_in.price, 1)
            /\ selected_profit_atr = MulPct(calc_in.price, 2)
       ELSE /\ selected_stop_atr
                 = IF calc_in.atr[CalcRow.SlPeriod] <= 0 THEN MulPct(calc_in.price, 1)
                   ELSE calc_in.atr[CalcRow.SlPeriod]
            /\ selected_profit_atr
                 = IF calc_in.atr[CalcRow.TpPeriod] <= 0 THEN MulPct(calc_in.price, 2)
                   ELSE calc_in.atr[CalcRow.TpPeriod]

(***************************************************************************)
(* C24: for a positive price level and a positive live quote whose ratio   *)
(* quote / price level lies outside [50, 150] and whose counts of digits   *)
(* before the decimal point (leading zeros stripped, so 0 digits below 1)  *)
(* differ by d = digits(quote) - digits(price level) with |d| >= 2,        *)
(* normalize_price returns the price level times 10^d.                     *)
(***************************************************************************)
C24_DigitDifferenceScales ==
    (/\ calc_called
     /\ CalcConfigured
     /\ computed_price_level > 0
     /\ calc_in.ig_price.has
     /\ calc_in.ig_price.v > 0
     /\ ~(/\ calc_in.ig_price.v \div 50 >= computed_price_level
          /\ (calc_in.ig_price.v + 149) \div 150 <= computed_price_level)
     /\ Abs(SigDigits(calc_in.ig_price.v) - SigDigits(computed_price_level)) >= 2)
    => NormalizePrice(computed_price_level, calc_in.ig_price)
         = ScalePow10(computed_price_level,
                      SigDigits(calc_in.ig_price.v) - SigDigits(computed_price_level))

\* ------------------------------------ properties of the orchestrator (Spec)

AlreadyTradedMessage == "Already traded {ticker} today at {time}"

NotConfiguredMessage == "Ticker {ticker} not found in configuration"

(***************************************************************************)
(* C2: with the same-day check enabled, validation of an alert whose       *)
(* ticker has an entry in today_trades ends the call with a validation     *)
(* error (the position or the same-day error), and for that alert no quote *)
(* has been fetched and calculate_trade_parameters has not been called.    *)
(***************************************************************************)
C2_DuplicateRejectedBeforeQuote ==
    [][\A w \in Workers :
         (/\ call[w].pc = "validate"
          /\ call'[w].pc /= "validate"
          /\ validation_rules["check_same_day_trades"]
          /\ today_trades[call[w].ticker].present)
         => /\ call'[w].pc = "done"
            /\ call'[w].result.kind = "returned"
            /\ call'[w].result.status = "error"
            /\ call'[w].result.message
                 \in { "Position already exists for {ticker}", AlreadyTradedMessage }
            /\ call'[w].result.ticker = call[w].ticker
            /\ call'[w].quotes_fetched = 0
            /\ call'[w].calculated = 0
            /\ call'[w].create_calls = 0]_vars

\* an alert for a traded ticker was rejected by the same-day check, without
\* a quote or a calculation
C2_DuplicateRejected ==
    \E w \in Workers :
        /\ call[w].pc = "done"
        /\ call[w].result.message = AlreadyTradedMessage
        /\ today_trades[call[w].ticker].present
        /\ call[w].quotes_fetched = 0
        /\ call[w].calculated = 0

C4_RejectedOnlyForSameDay ==
    \A w \in Workers :
        (call[w].pc = "done" /\ call[w].result.message = AlreadyTradedMessage)
            => today_trades[call[w].ticker].day = call[w].arrived

(***************************************************************************)
(* C5 as stated: an alert whose ticker has no row in the ticker            *)
(* configuration ends with an error status naming the ticker, no broker    *)
(* call has been made for it, and calculate_trade_parameters returns None  *)
(* for the ticker.                                                         *)
(***************************************************************************)
C5_UnconfiguredNamed ==
    \A w \in Workers :
        (/\ call[w].pc = "done"
         /\ call[w].ticker /= ""
         /\ \A r \in ticker_data : r.Symbol /= call[w].ticker)
        => /\ call[w].result.status = "error"
           /\ call[w].result.ticker = call[w].ticker

(***************************************************************************)
(* C5 amended: an alert whose ticker has no row in the ticker              *)
(* configuration ends with an error status, which names the ticker when    *)
(* the table is loaded and is "Ticker data not loaded" when the table is   *)
(* empty; no broker call (positions, market details, order creation) has   *)
(* been made for it, and calculate_trade_parameters returns None for the   *)
(* ticker whatever the quote.                                              *)
(***************************************************************************)
C5_UnconfiguredRejectedWithoutBroker ==
    \A w \in Workers :
        (/\ call[w].pc = "done"
         /\ call[w].ticker /= ""
         /\ \A r \in ticker_data : r.Symbol /= call[w].ticker)
        => /\ call[w].result.kind = "returned"
           /\ call[w].result.status = "error"
           /\ IF ticker_data = {}
              THEN call[w].result.message = "Ticker data not loaded"
              ELSE /\ call[w].result.message = NotConfiguredMessage
                   /\ call[w].result.ticker = call[w].ticker
           /\ call[w].positions_fetched = 0
           /\ call[w].quotes_fetched = 0
           /\ call[w].create_calls = 0
           /\ call[w].orders_posted = 0
           /\ \A q \in CalcQuotes :
                ~CalculateTradeParameters(ticker_data, call[w].ticker, call[w].direction,
                                          call[w].opening_price, call[w].atr_values,
                                          q).ok

\* an alert for a ticker missing from the loaded table was rejected by name
C5_UnconfiguredRejected ==
    \E w \in Workers :
        /\ call[w].pc = "done"
        /\ ticker_data /= {}
        /\ call[w].ticker = "NYSE:XXX"
        /\ call[w].result.message = NotConfiguredMessage
        /\ call[w].result.ticker = "NYSE:XXX"

(***************************************************************************)
(* C8: process_alert ends, on every path, by returning a status object     *)
(* (status success or error, with a message); no exception leaves it.      *)
(***************************************************************************)
C8_AlwaysStatusObject ==
    \A w \in Workers :
        call[w].pc = "done"
            => /\ call[w].result.kind = "returned"
               /\ call[w].result.status \in { "success", "error" }
               /\ call[w].result.message /= ""

\* the call got past the timestamp conversion and the age check, to the parser
ReachedParser(c) ==
    /\ c.pc /= "idle"
    /\ c.result.kind /= "raised"
    /\ c.result.message /= "Alert is too old"

\* the third to thirteenth tokens are numbers
NumericTokens(parts) == \A i \in 3..13 : parts[i].num

(***************************************************************************)
(* C12: an alert of fewer than 13 tokens is not parsed (process_alert ends *)
(* with the parse error and no parsed field is set); an alert of at least  *)
(* 13 tokens whose third to thirteenth tokens are numbers is parsed into   *)
(* the first token as ticker, the second as direction, the third as price  *)
(* and exactly ten ATR values, the fourth to thirteenth tokens in order.   *)
(***************************************************************************)
C12_ParseTenAtrValues ==
    \A w \in Workers :
        LET c == call[w]
            parts == c.alert_message
        IN  ReachedParser(c)
            => /\ Len(parts) < 13
                    => /\ c.pc = "done"
                       /\ c.result = Error("Failed to parse alert message", "")
                       /\ c.atr_values = << >>
               /\ (Len(parts) >= 13 /\ NumericTokens(parts))
                    => /\ c.result.message /= "Failed to parse alert message"
                       /\ c.ticker = parts[1].s
                       /\ c.direction = parts[2].s
                       /\ c.opening_price = parts[3].v
                       /\ Len(c.atr_values) = 10
                       /\ \A i \in 1..10 : c.atr_values[i] = parts[i + 3].v

\* an alert of 15 tokens has been parsed into ten ATR values
C12_LongAlertParsed ==
    \E w \in Workers :
        /\ call[w].pc = "validate"
        /\ Len(call[w].alert_message) = 15
        /\ Len(call[w].atr_values) = 10

(***************************************************************************)
(* C13: parse_alert_message raises nothing: for an alert of fewer than 13  *)
(* tokens, or one whose price or ATR token is not a number, it returns its *)
(* failure value, and process_alert returns the parse-error status without *)
(* validating (no position fetch), fetching a quote, calculating or        *)
(* submitting an order.                                                    *)
(***************************************************************************)
C13_ParseFailureIsStatus ==
    \A w \in Workers :
        LET c == call[w]
            parts == c.alert_message
        IN  (ReachedParser(c) /\ (Len(parts) < 13 \/ ~NumericTokens(parts)))
            => /\ c.pc = "done"
               /\ c.result.kind = "returned"
               /\ c.result.status = "error"
               /\ c.result.message = "Failed to parse alert message"
               /\ c.positions_fetched = 0
               /\ c.quotes_fetched = 0
               /\ c.calculated = 0
               /\ c.create_calls = 0
               /\ c.orders_posted = 0

\* an alert of 13 tokens with a token that is no number ended in the parse error
C13_NotNumberRejected ==
    \E w \in Workers :
        /\ call[w].pc = "done"
        /\ call[w].alert_message = MsgNotNumber
        /\ call[w].result = Error("Failed to parse alert message", "")

\* the answer the open-position-limit check reads: the second fetch when the
\* existing-position check made the first
LimitAnswer(first, second) ==
    IF validation_rules["check_existing_position"] THEN second ELSE first

(***************************************************************************)
(* C17: with the open-position-limit check enabled, when the broker        *)
(* reports max_open_positions or more open positions to that check, and    *)
(* with the existing-position check enabled, when the broker reports a     *)
(* position on the alert's instrument code to that check, validation ends  *)
(* the call with an error: no quote is fetched and no order is submitted   *)
(* for the alert.                                                          *)
(***************************************************************************)
C17_NoOrderOverPositionLimits ==
    [][\A w \in Workers, first \in PositionResponses, second \in PositionResponses :
         (/\ call[w].pc = "validate"
          /\ ticker_data /= {}
          /\ GetEpic(ticker_data, call[w].ticker) /= ""
          /\ \/ /\ validation_rules["check_open_position_limit"]
                /\ LimitAnswer(first, second).ok
                /\ LimitAnswer(first, second).count >= MAX_OPEN_POSITIONS
             \/ /\ validation_rules["check_existing_position"]
                /\ first.ok
                /\ first.on_epic
          /\ Validate(w, first, second))
         => /\ call'[w].pc = "done"
            /\ call'[w].result.kind = "returned"
            /\ call'[w].result.status = "error"
            /\ call'[w].quotes_fetched = 0
            /\ call'[w].create_calls = 0
            /\ call'[w].orders_posted = 0]_vars

\* an alert was rejected because the broker reported the maximum number of
\* open positions, after the existing-position check had passed
C17_RejectedAtPositionLimit ==
    \E w \in Workers :
        /\ call[w].pc = "done"
        /\ validation_rules["check_open_position_limit"]
        /\ validation_rules["check_existing_position"]
        /\ call[w].result.message = "Maximum open positions limit ({max}) reached"
        /\ call[w].positions_fetched = 2
        /\ call[w].create_calls = 0

(***************************************************************************)
(* C18: once process_alert has returned success for a ticker, the ticker's *)
(* entry in today_trades holds the time of the trade, its trade parameters *)
(* and the deal reference of the submission, and                           *)
(* check_position_status(ticker) finds that deal reference.                *)
(***************************************************************************)
C18_SuccessKeepsDealReference ==
    \A w \in Workers :
        (/\ call[w].pc = "done"
         /\ call[w].result.status = "success"
         /\ call[w].result.deal_reference /= "")
        => /\ today_trades[call[w].ticker].present
           /\ today_trades[call[w].ticker].has_params
           /\ today_trades[call[w].ticker].deal_reference = call[w].result.deal_reference
           /\ CheckPositionStatus(today_trades, call[w].ticker).found
           /\ CheckPositionStatus(today_trades, call[w].ticker).deal_reference
                = call[w].result.deal_reference

(***************************************************************************)
(* C21: processing one alert fetches the live quote at most three times    *)
(* (in process_alert, in _execute_trade and inside create_position), calls *)
(* create_position at most once and posts at most one order; an order is   *)
(* posted only after all three fetches, and once create_position has been  *)
(* called the call makes no further request to the broker, whatever the    *)
(* broker answered.                                                        *)
(***************************************************************************)
C21_NoRetry ==
    [][\A w \in Workers :
         /\ call'[w].quotes_fetched <= 3
         /\ call'[w].create_calls <= 1
         /\ call'[w].orders_posted <= call'[w].create_calls
         /\ call'[w].orders_posted = 1 => call'[w].quotes_fetched = 3
         /\ (call[w].create_calls = 1 /\ call'[w].pc /= "idle")
            => /\ call'[w].quotes_fetched = call[w].quotes_fetched
               /\ call'[w].create_calls = call[w].create_calls
               /\ call'[w].orders_posted = call[w].orders_posted
               /\ call'[w].positions_fetched = call[w].positions_fetched]_vars

\* the broker rejected the order and the call ended after its one submission
C21_RejectedOnce ==
    \E w \in Workers :
        /\ call[w].pc = "done"
        /\ call[w].broker_answer = "rejected"
        /\ call[w].quotes_fetched = 3
        /\ call[w].create_calls = 1
        /\ call[w].orders_posted = 1

\* C21 as stated: one alert makes one quote fetch and at most one submission
C21_OneQuoteFetch ==
    \A w \in Workers :
        /\ call[w].quotes_fetched <= 1
        /\ call[w].orders_posted <= 1

(***************************************************************************)
(* C22: with check_alert_timestamp enabled, an alert whose age is above    *)
(* alert_max_age_seconds (5) ends at once with the error "Alert is too     *)
(* old": nothing of it is parsed, the broker is not called and             *)
(* today_trades is unchanged.  An alert whose age is not above the         *)
(* maximum, an alert without a timestamp, and any alert when the check is  *)
(* disabled, does not end with that error.                                 *)
(***************************************************************************)
C22_StaleAlertRejected ==
    [][\A w \in Workers :
         LET m == call'[w].alert_message
             ts == call'[w].timestamp
         IN  (call[w].pc = "idle" /\ call'[w].pc /= "idle" /\ ts.kind /= "out_of_range")
             => IF /\ validation_rules["check_alert_timestamp"]
                   /\ ts.kind = "age"
                   /\ ts.age > ALERT_MAX_AGE_SECONDS
                THEN /\ call'[w] = Finish([IdleCall EXCEPT !.alert_message = m,
                                                           !.timestamp = ts,
                                                           !.arrived = today],
                                          Error("Alert is too old", ""))
                     /\ call'[w].ticker = ""
                     /\ call'[w].positions_fetched = 0
                     /\ call'[w].quotes_fetched = 0
                     /\ call'[w].create_calls = 0
                     /\ today_trades' = today_trades
                ELSE call'[w].result.message /= "Alert is too old"]_vars

\* a well-formed alert six seconds old was rejected as too old
C22_SixSecondsOldRejected ==
    \E w \in Workers :
        /\ call[w].pc = "done"
        /\ validation_rules["check_alert_timestamp"]
        /\ call[w].timestamp = TsAge(ALERT_MAX_AGE_SECONDS + 1)
        /\ call[w].alert_message = MsgSRP
        /\ call[w].result = Error("Alert is too old", "")

(***************************************************************************)
(* C25: every order that process_alert posts to the broker carries a stop  *)
(* distance above 0 and a limit distance above 0 in the request sent, so   *)
(* that no order is placed without a stop-loss.                            *)
(***************************************************************************)
C25_PostedOrderHasStopAndLimit ==
    \A w \in Workers :
        call[w].orders_posted > 0
        => /\ DistanceSent(call[w].order.stop_distance).has
           /\ DistanceSent(call[w].order.stop_distance).v > 0
           /\ DistanceSent(call[w].order.limit_distance).has
           /\ DistanceSent(call[w].order.limit_distance).v > 0

(***************************************************************************)
(* C26: the entry level of every order that process_alert posts to the     *)
(* broker equals the entry_price the calculator returned for the alert,    *)
(* the price from which the order's position size was derived.             *)
(***************************************************************************)
C26_EntryLevelIsEntryPrice ==
    \A w \in Workers :
        call[w].orders_posted > 0
        => call[w].order.limit_level = call[w].trade_params.entry_price

(***************************************************************************)
(* C28: alerts are processed one after another and today_trades is never   *)
(* reset.  With check_same_day_trades enabled, create_position is called   *)
(* only for a ticker without an entry in today_trades; an order the broker *)
(* accepted leaves an entry for its ticker; and an entry is never removed. *)
(* So at most one order per ticker is accepted, and every alert for the    *)
(* ticker after it ends without a submission.                              *)
(***************************************************************************)
C28_OneAcceptedOrderPerTicker ==
    [][/\ \A t \in Tickers : today_trades[t].present => today_trades'[t].present
       /\ \A w \in Workers :
            call'[w].create_calls > call[w].create_calls
            => /\ validation_rules["check_same_day_trades"]
                  => ~today_trades[call[w].ticker].present
               /\ Accepted(call'[w].broker_answer)
                  => today_trades'[call[w].ticker].present]_vars

\* on a later day, a second alert for a ticker whose order the broker had
\* accepted ended with the same-day error and without a submission
C28_SecondAlertRejectedNextDay ==
    \E w \in Workers :
        /\ validation_rules["check_same_day_trades"]
        /\ call[w].pc = "done"
        /\ call[w].ticker = "LSE_DLY:SRP"
        /\ today_trades["LSE_DLY:SRP"].present
        /\ today_trades["LSE_DLY:SRP"].day < call[w].arrived
        /\ call[w].result.message = "Already traded {ticker} today at {time}"
        /\ call[w].create_calls = 0
        /\ call[w].orders_posted = 0

\* ----------------------- properties of concurrent alerts (SpecConcurrent)

(***************************************************************************)
(* C16: today_trades has no concurrency guard.  The same-day check of a    *)
(* call looks at today_trades only: while the ticker has no entry it never *)
(* rejects the alert as already traded, also when another call for the     *)
(* same ticker has passed its check and not yet recorded its trade; so two *)
(* concurrent alerts for one ticker can both reach the submission and two  *)
(* orders for the ticker are placed on the same day.                       *)
(***************************************************************************)
C16_SameDayCheckUnguarded ==
    [][\A w \in Workers :
         (/\ call[w].pc = "validate"
          /\ call'[w].pc /= "validate"
          /\ ~today_trades[call[w].ticker].present)
         => /\ call'[w].result.message /= AlreadyTradedMessage
            /\ (\E v \in Workers \ { w } :
                    /\ call[v].ticker = call[w].ticker
                    /\ call[v].pc \in { "quote", "execute", "submit" })
                 => \/ call'[w].pc = "quote"
                    \/ call'[w].result.message
                         \in { "Position already exists for {ticker}",
                               "Maximum open positions limit ({max}) reached" }]_vars

\* two calls for the same ticker, arrived on the same day with the same-day
\* check enabled, have both had their order accepted by the broker
C16_TwoOrdersSameTicker ==
    \E w \in Workers, v \in Workers :
        /\ w /= v
        /\ validation_rules["check_same_day_trades"]
        /\ call[w].ticker = call[v].ticker
        /\ call[w].ticker /= ""
        /\ call[w].arrived = call[v].arrived
        /\ call[w].orders_posted = 1 /\ Accepted(call[w].broker_answer)
        /\ call[v].orders_posted = 1 /\ Accepted(call[v].broker_answer)

\* ------------ properties of alerts without positions (SpecPositionsUnavailable)

(***************************************************************************)
(* C27: with the existing-position check or the open-position-limit check  *)
(* enabled, an alert for which validation fetched the open positions and   *)
(* the fetch failed is not followed by an order: process_alert posts       *)
(* nothing to the broker for it.                                           *)
(***************************************************************************)
C27_NoOrderWithoutPositions ==
    \A w \in Workers :
        (/\ \/ validation_rules["check_existing_position"]
            \/ validation_rules["check_open_position_limit"]
         /\ call[w].positions_fetched > 0)
        => /\ call[w].create_calls = 0
           /\ call[w].orders_posted = 0

\* --------------------------------- properties of the webhook layer (SpecWeb)

(***************************************************************************)
(* C6: a request whose payload carries test_mode = true never makes the    *)
(* handler call create_position or create_working_order, whatever its      *)
(* other fields are.                                                       *)
(***************************************************************************)
C6_TestModeSendsNoOrder ==
    (web.pc = "done" /\ web.payload.test_mode = "true")
        => /\ web.create_position_calls = 0
           /\ web.create_working_order_calls = 0

(***************************************************************************)
(* C7: a JSON request whose message field is a well-formed alert line for  *)
(* a configured ticker is handed to the orchestrator (process_alert is     *)
(* called with it) and is not rejected for missing fields.                 *)
(***************************************************************************)
C7_MessageHandedToOrchestrator ==
    (/\ web.pc = "done"
     /\ web.payload.json
     /\ WellFormed(web.payload.message)
     /\ \E r \in TickerRows : r.Symbol = ParseAlertMessage(web.payload.message).ticker)
        => /\ web.process_alert_calls > 0
           /\ web.message
                /= "Missing required fields: symbol and direction are required"

\* a request with symbol and direction, to a handler that has its collaborators
CompleteRequest ==
    /\ web.pc = "done"
    /\ web.payload.json
    /\ web.payload.symbol /= ""
    /\ web.payload.direction /= ""
    /\ collaborators /= "none"

\* the rows whose Symbol is the payload's symbol, and those whose Symbol
\* contains the part of the payload's symbol after ':'
ExactRows == { r \in TickerRows : r.Symbol = web.payload.symbol }

PartialRows ==
    { r \in TickerRows : SymbolContains(r.Symbol, BaseSymbol(web.payload.symbol)) }

OrderSent == web.create_position_calls + web.create_working_order_calls > 0

(***************************************************************************)
(* C19 as stated: a request whose symbol is not the Symbol of a row of the *)
(* ticker table is answered with the error 'Invalid symbol' and no order   *)
(* is sent; an order is only sent for the instrument code of the row with  *)
(* exactly the payload's symbol.                                           *)
(***************************************************************************)
C19_OnlyExactSymbolTraded ==
    CompleteRequest
        => /\ ExactRows = {}
                => /\ web.status = "error"
                   /\ web.message = "Invalid symbol: {symbol}"
                   /\ ~OrderSent
           /\ OrderSent => \E r \in ExactRows : web.epic = r.Epic

(***************************************************************************)
(* C19 amended: a request whose symbol is not the Symbol of a row, and     *)
(* whose part after ':' (if it has one) is contained in no row's Symbol,   *)
(* is answered with the error 'Invalid symbol' and no order is sent; an    *)
(* order is only sent for the instrument code of the row with exactly the  *)
(* payload's symbol or, when there is none, of a row whose Symbol contains *)
(* the part of the payload's symbol after ':'.                             *)
(***************************************************************************)
C19_ExactOrPartialSymbolTraded ==
    CompleteRequest
        => /\ (ExactRows = {} /\ PartialRows = {})
                => /\ web.status = "error"
                   /\ web.message = "Invalid symbol: {symbol}"
                   /\ ~OrderSent
           /\ OrderSent
                => \E r \in (IF ExactRows /= {} THEN ExactRows ELSE PartialRows) :
                      web.epic = r.Epic

\* a request for a symbol matching no row was answered 'Invalid symbol'
C19_UnknownSymbolRejected ==
    /\ CompleteRequest
    /\ web.payload.symbol = "NYSE:XXX"
    /\ web.payload.direction = "BUY"
    /\ web.message = "Invalid symbol: {symbol}"
    /\ ~OrderSent

(***************************************************************************)
(* C29: process_webhook returns status success only when the gateway call  *)
(* it made (create_position or create_working_order) returned a result of  *)
(* status success; when the call returned a result of status error,        *)
(* process_webhook returns status error.                                   *)
(***************************************************************************)
C29_SuccessOnlyWhenBrokerSucceeded ==
    web.pc = "done"
    => /\ web.status = "success" => web.details = "success"
       /\ web.details = "error" => web.status = "error"

\* ------------------------------ properties of the dashboard's accounts (SpecAuth)

(***************************************************************************)
(* C30: after an administrator has added a user with password p through    *)
(* the route /admin/users/add, authenticate_user(username, p) succeeds:    *)
(* the stored credential is one that verify_password accepts for p.        *)
(***************************************************************************)
C30_AddedUserAuthenticates ==
    [][\A username \in Usernames, password \in PasswordsEntered,
          role \in { "user", "admin" } :
         (/\ ~users[username].present
          /\ AddUser(username, password, role, TRUE)
          /\ users'[username].present)
         => /\ VerifyPassword(users', username, password)
            /\ AuthenticateUser(users', username, password).ok]_vars

====
